---- MODULE Spec2Model ----
(***************************************************************************)
(* A model of the microlambda build core: the checksum store                *)
(* (cli/src/utils/checksums.ts), the graph node and its type-check state    *)
(* machine (core/src/graph/node.ts), the build command that consumes the    *)
(* scheduler's event stream (unnamed/part_002), and the recompilation       *)
(* scheduler itself, whose source is not part of the tree and which is      *)
(* modelled from its specification.                                         *)
(***************************************************************************)
EXTENDS Integers, Sequences, FiniteSets, TLC

(***************************************************************************)
(* Bounds of the model.                                                     *)
(***************************************************************************)
\* number of distinct contents a source file can take
MaxContent == 2
\* number of performTypeChecking subscriptions made on the nodes
MaxSubs == 3
\* number of output chunks a type-check subprocess writes
MaxLogs == 1
\* depth of the JavaScript call stack available to the Node constructor
StackLimit == 5

(***************************************************************************)
(* Values.                                                                  *)
(***************************************************************************)
\* JavaScript null, and a checksums object: a reference is one or the other
Null == [null |-> TRUE, entries |-> <<>>]
Obj(entries) == [null |-> FALSE, entries |-> entries]

\* the workspaces of the project
Nodes == {"core", "lib", "svc"}

\* getName(workspace): the scoped package name, as its '/'-separated segments
NameSegments(n) ==
  CASE n = "core" -> <<"@mila", "core">>
    [] n = "lib"  -> <<"@mila", "lib">>
    [] n = "svc"  -> <<"@mila", "svc">>

\* config.fileNames of getTsConfig(location): the one source file of each node
SourceOf(n) ==
  CASE n = "core" -> "core/src/index.ts"
    [] n = "lib"  -> "lib/src/index.ts"
    [] n = "svc"  -> "svc/src/index.ts"

Files == {SourceOf(n) : n \in Nodes}

\* hasha.fromFile(src, sha256): the digest of a file's content
Sha256(content) == <<"sha256", content>>

Contents == 1..MaxContent

\* An IChecksums object: its own keys in insertion order, each with its hash.
\* The sequences of <<key, hash>> entries with distinct keys over a key set.
RECURSIVE SeqsOver(_, _)
SeqsOver(S, n) ==
  IF n = 0 THEN {<<>>}
  ELSE LET shorter == SeqsOver(S, n - 1)
       IN  shorter \cup {Append(s, x) : s \in {t \in shorter : Len(t) = n - 1}, x \in S}

DistinctKeys(m) == \A i, j \in 1..Len(m) : i # j => m[i][1] # m[j][1]

ChecksumMaps(keys) ==
  {Obj(m) : m \in {e \in SeqsOver(keys \X {Sha256(c) : c \in Contents}, Cardinality(keys)) :
                     DistinctKeys(e)}}

\* Object.keys(o)
ObjectKeys(o) == [i \in 1..Len(o.entries) |-> o.entries[i][1]]

\* Array.prototype.includes
Includes(arr, x) == \E i \in 1..Len(arr) : arr[i] = x

\* o[key]: the value of an own key, undefined otherwise
Lookup(o, key) ==
  IF Includes(ObjectKeys(o), key)
  THEN o.entries[CHOOSE i \in 1..Len(o.entries) : o.entries[i][1] = key][2]
  ELSE <<"undefined", 0>>

\* the object as a mapping, whatever the insertion order of its keys
AsMapping(o) == {o.entries[i] : i \in 1..Len(o.entries)}

(***************************************************************************)
(* checksums.compare                                                        *)
(***************************************************************************)
\* the loop `for (const key of keys.current)` from its i-th key on
RECURSIVE compareKeys(_, _, _)
compareKeys(old, current, i) ==
  IF i > Len(ObjectKeys(current)) THEN FALSE
  ELSE LET key == ObjectKeys(current)[i] IN
       IF ~Includes(ObjectKeys(old), key) THEN TRUE
       ELSE IF Lookup(old, key) # Lookup(current, key) THEN TRUE
       ELSE compareKeys(old, current, i + 1)

\* a variant that looks at the keys only, never at the hashes
compareIgnoringHashes(old, current) ==
  IF old.null THEN TRUE
  ELSE IF Len(ObjectKeys(old)) # Len(ObjectKeys(current)) THEN TRUE
  ELSE \E i \in 1..Len(ObjectKeys(current)) :
         ~Includes(ObjectKeys(old), ObjectKeys(current)[i])

\* true = "needs rebuild"
compare(old, current) ==
  IF old.null THEN TRUE
  ELSE IF Len(ObjectKeys(old)) # Len(ObjectKeys(current)) THEN TRUE
  ELSE compareKeys(old, current, 1)

(***************************************************************************)
(* State.                                                                   *)
(***************************************************************************)
VARIABLES
  \* arguments and results of the calls of checksums.compare under test
  cmpOld, cmpCur, cmpRes, cmpRev,
  \* graph construction: the manifests, the Node objects, the shared node
  \* set, the call stack of the constructors and how construction ended
  manifest, objs, nodes, stack, ctorStatus,
  \* Node.dependencies of the constructed graph, by node name
  dependencies,
  \* Node.typeCheckStatus, Node.typeCheckProcess, Node._typeCheckLogs and
  \* Node._checksums, by node name
  typeCheckStatus, typeCheckProcess, typeCheckLogs, checksumsMem,
  \* the files under .mila/hashes, by path, and the source files' contents
  hashFiles, fs,
  \* the type-check subprocesses spawned so far and the listeners on them
  procs,
  \* the subscriptions to performTypeChecking observables
  subs,
  \* the 'close' or 'error' event a ChildProcess is emitting to its listeners
  emitting,
  \* the scheduler's build run, the events it emitted for each node, in
  \* order, and the command that consumes them
  run, events, cli,
  \* the result of the call of checksums.read under test
  readRes,
  \* the node whose derived views were asked for, and the answers of
  \* getDependencies, getDependent and getParents
  viewNode, viewDependencies, viewDependent, viewParents,
  \* Node.transpilingStatus and Node.transpilingPromise by node name, the
  \* promises of compileFiles, and the subscriptions to transpile observables
  transpilingStatus, transpilingPromise, promises, tsubs,
  \* Node._ipc (the same manager on every node) and the calls of its
  \* graphUpdated hook so far
  ipc, ipcCalls,
  \* getName(workspace) of each workspace, as its '/'-separated segments
  workspaceName,
  \* the subscriptions to performTypeChecking observables that their
  \* requester has unsubscribed from: what the sequence emits afterwards is
  \* still recorded in subs, but reaches nobody
  unsubscribed

cmpVars == <<cmpOld, cmpCur, cmpRes, cmpRev>>
ctorVars == <<manifest, objs, nodes, stack, ctorStatus>>
nodeVars == <<dependencies, typeCheckStatus, typeCheckProcess, typeCheckLogs,
              checksumsMem, hashFiles, fs, procs, subs, emitting>>
schedVars == <<run, events, cli>>
viewVars == <<viewNode, viewDependencies, viewDependent, viewParents>>
transpileVars == <<transpilingStatus, transpilingPromise, promises, tsubs, ipc, ipcCalls>>
otherVars == <<readRes, viewVars, transpileVars, workspaceName, unsubscribed>>
vars == <<cmpVars, ctorVars, nodeVars, schedVars, otherVars>>

(***************************************************************************)
(* checksums(node, logger): the cache file of a node.                       *)
(***************************************************************************)
\* segments[segments.length - 1] joined to .mila/hashes
hashPathOf(segments) == segments[Len(segments)]

\* the cache file of a node of the project whose packages are all @mila/...
hashPath(n) == hashPathOf(NameSegments(n))

HashPaths == {hashPath(n) : n \in Nodes}

\* A cache file: missing, unreadable, or holding a text. JSON.stringify of a
\* checksums object gives a text that JSON.parse reads back; any other text
\* makes JSON.parse throw.
Missing == [state |-> "ENOENT", json |-> FALSE, value |-> Null]
Unreadable == [state |-> "EACCES", json |-> FALSE, value |-> Null]
Garbage == [state |-> "file", json |-> FALSE, value |-> Null]
JsonStringify(o) == [state |-> "file", json |-> TRUE, value |-> o]
JsonParses(file) == file.json
JsonParse(file) == file.value

\* fs.existsSync(hashPath)
existsSync(file) == file.state # "ENOENT"

\* the callback of readFile(hashPath) in read(): an error or a text that is
\* not JSON rejects the promise, a JSON text resolves it with the object
readFileCallback(file) ==
  IF file.state = "file" /\ JsonParses(file)
  THEN [state |-> "resolved", value |-> JsonParse(file)]
  ELSE [state |-> "rejected", value |-> Null]

\* checksums.read() on a cache file that nothing changes meanwhile: null when
\* the file does not exist, else what the callback of readFile gives
read(file) ==
  IF ~existsSync(file) THEN [state |-> "resolved", value |-> Null]
  ELSE readFileCallback(file)


(***************************************************************************)
(* Node: derived views of the graph.                                        *)
(***************************************************************************)
Range(s) == {s[i] : i \in 1..Len(s)}

\* a variant of _getDependencies that pushes the direct dependencies only
walkDirectDependencies(d, list, i) == SubSeq(list, i, Len(list))

\* Node._getDependencies: push each direct dependency, then its dependencies
RECURSIVE walkDependencies(_, _, _)
walkDependencies(d, list, i) ==
  IF i > Len(list) THEN <<>>
  ELSE <<list[i]>> \o walkDependencies(d, d[list[i]], 1) \o walkDependencies(d, list, i + 1)

\* Node.getDependencies over the dependency lists d
getDependencies(d, n) == walkDependencies(d, d[n], 1)

\* graph.getNodes(): the nodes of the graph, in the order of the workspaces
getNodes == <<"core", "lib", "svc">>

\* a variant of getDependent that looks at the direct dependencies only
getDependentDirectOnly(d, n) ==
  SelectSeq(getNodes, LAMBDA m : Includes(d[m], n))

\* Node.getDependent: the nodes whose getDependencies() holds this name
getDependent(d, n) ==
  SelectSeq(getNodes, LAMBDA m : Includes(getDependencies(d, m), n))

\* Node.getParents: the nodes with a direct dependency of this name
getParents(d, n) ==
  SelectSeq(getNodes, LAMBDA m : \E i \in 1..Len(d[m]) : d[m][i] = n)

(***************************************************************************)
(* checksums.calculate: the hashes of the sources of the node and of all    *)
(* its dependencies, inserted as each digest completes.                     *)
(***************************************************************************)
calculateSources(n) ==
  {SourceOf(m) : m \in {n} \cup Range(getDependencies(dependencies, n))}

calculateResults(n) ==
  LET entries == {<<f, Sha256(fs[f])>> : f \in calculateSources(n)}
      k == Cardinality(entries)
  IN  {Obj(e) : e \in {s \in SeqsOver(entries, k) : Len(s) = k /\ DistinctKeys(s)}}

\* calculate resolves with a map, or rejects when a source cannot be hashed
Rejected == Null
calculateOutcomes(n) == calculateResults(n) \cup {Rejected}

(***************************************************************************)
(* The event loop, the subscriptions and the subprocesses.                  *)
(***************************************************************************)
\* The scheduler starts a node of its target in dependency order.
\* a variant that lets a node start as soon as its dependencies have started
mayStartOnceDependenciesStarted(n) ==
  /\ run.stream = "open"
  /\ n \in run.target /\ run.state[n] = "idle"
  /\ \A d \in Range(dependencies[n]) \cap run.target : run.state[d] # "idle"

\* a node may start once each of its direct dependencies in the target has
\* ended, and none of them in error
mayStart(n) ==
  /\ run.stream = "open"
  /\ n \in run.target /\ run.state[n] = "idle"
  /\ \A d \in Range(dependencies[n]) \cap run.target : run.state[d] = "succeeded"

NoEmit == [pid |-> 0, ev |-> "none", code |-> 0, todo |-> <<>>, notified |-> FALSE]

\* the scheduler still has a node to start in the turn that is running
SchedulerBusy == \E n \in Nodes : mayStart(n)

\* no JavaScript is running and the program has not ended: an I/O callback,
\* a process event or an outside request can run next. Once the build
\* command's promise is settled its continuation (process.exit) runs first.
LoopIdle ==
  /\ emitting.pid = 0
  /\ ~SchedulerBusy
  /\ ~cli.exited
  /\ ~(cli.cmd = "build" /\ cli.promise # "pending")

\* code of a requester can run: from the loop, or from inside a notification
\* callback called by a listener of the event being emitted; the scheduler
\* starts the nodes that may start in the turn that made them so
CallerCanRun ==
  /\ ~cli.exited
  /\ \/ LoopIdle
     \/ emitting.pid # 0 /\ emitting.notified
     \/ SchedulerBusy

SubIds == 1..Len(subs)
ProcIds == 1..Len(procs)

\* the latest subscription that started a type-check of n (0 when none)
LatestStart(n) ==
  LET starts == {s \in SubIds : subs[s].node = n /\ subs[s].kind = "start"}
  IN  IF starts = {} THEN 0 ELSE CHOOSE s \in starts : \A t \in starts : t <= s

NewSub(n, force, owner, kind, pc, proc, joined) ==
  [node |-> n, force |-> force, owner |-> owner, kind |-> kind, pc |-> pc,
   old |-> Null, cur |-> Null, proc |-> proc, spawned |-> 0, skipped |-> FALSE,
   wrote |-> FALSE,
   nexts |-> 0, term |-> "none", joined |-> joined]

(***************************************************************************)
(* The command: typeCheck's onNext / onError / onComplete and build.        *)
(***************************************************************************)
reject(c) == [c EXCEPT !.promise = IF @ = "pending" THEN "rejected" ELSE @]
resolve(c) == [c EXCEPT !.promise = IF @ = "pending" THEN "resolved" ELSE @]

\* onNext(evt); spinners.get of a node without a spinner is undefined, and
\* using it throws
typeCheckOnNext(c, type, n) ==
  IF type = "TYPE_CHECK_IN_PROGRESS" THEN [c EXCEPT !.spinners[n] = "spinning"]
  ELSE IF c.spinners[n] = "none" THEN [c EXCEPT !.crashed = TRUE]
  ELSE IF type = "TYPE_CHECK_SUCCESS" THEN [c EXCEPT !.spinners[n] = "succeed"]
  ELSE reject([c EXCEPT !.spinners[n] = "fail"])

\* onError(evt)
typeCheckOnError(c, n) ==
  IF c.spinners[n] = "none" THEN [c EXCEPT !.crashed = TRUE]
  ELSE reject([c EXCEPT !.spinners[n] = "fail"])

\* onComplete()
typeCheckOnComplete(c) == resolve(c)

(***************************************************************************)
(* The scheduler's part in a notification of one of its subscriptions.      *)
(***************************************************************************)
\* the scheduler emits an event on its stream, which calls the consumer
schedEmit(st, type, n) ==
  [st EXCEPT !.events[n] = Append(@, type),
             !.cli = IF @.cmd = "watch" THEN @ ELSE typeCheckOnNext(@, type, n)]

\* a notification of the type-check sequence of node n reaches the scheduler
schedOnNotification(st, n, what) ==
  CASE what = "next" ->
         schedEmit([st EXCEPT !.run.state[n] = "succeeded"], "TYPE_CHECK_SUCCESS", n)
    [] what = "error" ->
         schedEmit([st EXCEPT !.run.state[n] = "failed",
                              !.run.failed = IF @ = {} THEN {n} ELSE @],
                   "TYPE_CHECK_FAILURE", n)
    [] what = "complete" ->
         [st EXCEPT !.run.completed = @ \cup {n}]

RECURSIVE schedOnNotifications(_, _, _)
schedOnNotifications(st, n, whats) ==
  IF whats = <<>> THEN st
  ELSE schedOnNotifications(schedOnNotification(st, n, Head(whats)), n, Tail(whats))

\* the requester of a subscription is called back with these notifications
Notify(owner, n, whats) ==
  IF owner = "sched"
  THEN LET st == schedOnNotifications([run |-> run, events |-> events, cli |-> cli], n, whats)
       IN  run' = st.run /\ events' = st.events /\ cli' = st.cli
  ELSE UNCHANGED schedVars


(***************************************************************************)
(* Node.performTypeChecking, _startTypeChecking and _watchTypeChecking.     *)
(***************************************************************************)
\* the notifications a subscription gets while it subscribes: attaching to
\* this.typeCheckProcess when there is none throws, and the TypeError is
\* delivered as the error of the sequence
subscribeNotifications(n) ==
  IF typeCheckStatus[n] = "CHECKING" /\ typeCheckProcess[n] = 0 THEN <<"error">> ELSE <<>>

\* subscribing to performTypeChecking(force): the switch on typeCheckStatus.
\* A start runs _startTypeChecking up to its first wait for I/O: the status
\* is set, and read() answers null at once when the cache file does not exist.
subscribe(n, force, owner) ==
  LET s == Len(subs) + 1 IN
  /\ Len(subs) < MaxSubs
  /\ CallerCanRun
  /\ IF typeCheckStatus[n] # "CHECKING"
     THEN /\ typeCheckStatus' = [typeCheckStatus EXCEPT ![n] = "CHECKING"]
          /\ subs' = Append(subs, NewSub(n, force, owner, "start",
                        IF force THEN "forceCalculate"
                        ELSE IF existsSync(hashFiles[hashPath(n)]) THEN "read" ELSE "calculate",
                        0, s))
          /\ UNCHANGED procs
     ELSE IF typeCheckProcess[n] = 0
     THEN /\ subs' = Append(subs, [NewSub(n, FALSE, owner, "join", "done", 0, LatestStart(n))
                                     EXCEPT !.term = "error"])
          /\ UNCHANGED <<typeCheckStatus, procs>>
     ELSE /\ subs' = Append(subs, NewSub(n, FALSE, owner, "join", "watch",
                                         typeCheckProcess[n], LatestStart(n)))
          /\ procs' = [procs EXCEPT ![typeCheckProcess[n]].listeners = Append(@, s)]
          /\ UNCHANGED typeCheckStatus
  /\ UNCHANGED <<dependencies, typeCheckProcess, typeCheckLogs, checksumsMem,
                 hashFiles, fs, emitting>>

\* a requester other than the scheduler subscribes
ClientSubscribe(n, force) ==
  /\ subscribe(n, force, "client")
  /\ Notify("client", n, subscribeNotifications(n))
  /\ UNCHANGED <<cmpVars, otherVars, ctorVars>>

\* read() of an existing cache file calls back: the text read and parsed, or
\* a rejection (the file cannot be read, or it is not JSON), which the catch
\* block of _startTypeChecking answers by calculating
ReadDone(s) ==
  /\ LoopIdle
  /\ s \in SubIds /\ subs[s].pc = "read"
  /\ LET res == readFileCallback(hashFiles[hashPath(subs[s].node)]) IN
     subs' = [subs EXCEPT ![s] =
                IF res.state = "resolved"
                THEN [@ EXCEPT !.pc = "calculate", !.old = res.value]
                ELSE [@ EXCEPT !.pc = "recalculate"]]
  /\ UNCHANGED <<dependencies, typeCheckStatus, typeCheckProcess, typeCheckLogs,
                 checksumsMem, hashFiles, fs, procs, emitting>>
  /\ UNCHANGED <<cmpVars, otherVars, ctorVars, schedVars>>

\* the contents a subprocess has read its sources with: none yet
NotRead == [f \in Files |-> 0]

\* if (recompile): spawn tsc; the then-callback of performTypeChecking attaches
\* _watchTypeChecking to it before any other callback runs
spawnAndWatch(s, current) ==
  LET n == subs[s].node
      pid == Len(procs) + 1
  IN  /\ procs' = Append(procs, [node |-> n, state |-> "running", code |-> 0,
                                 chunks |-> 0, listeners |-> <<s>>,
                                 sources |-> NotRead])
      /\ typeCheckProcess' = [typeCheckProcess EXCEPT ![n] = pid]
      /\ subs' = [subs EXCEPT ![s] = [@ EXCEPT !.pc = "watch", !.old = Null,
                                                !.cur = current,
                                                !.proc = pid, !.spawned = pid]]
      /\ UNCHANGED <<typeCheckStatus, typeCheckLogs>>
      /\ Notify(subs[s].owner, n, <<>>)

\* else: the check is skipped
skipTypeCheck(s, current) ==
  LET n == subs[s].node IN
  /\ typeCheckStatus' = [typeCheckStatus EXCEPT ![n] = "SUCCESS"]
  /\ typeCheckLogs' = [typeCheckLogs EXCEPT ![n] =
        << [kind |-> "skipped", pid |-> 0, text |-> Missing],
           [kind |-> "checksums", pid |-> 0, text |-> JsonStringify(current)] >>]
  /\ subs' = [subs EXCEPT ![s] = [@ EXCEPT !.pc = "done", !.old = Null,
                                            !.skipped = TRUE,
                                            !.nexts = @ + 1, !.term = "complete"]]
  /\ UNCHANGED <<typeCheckProcess, procs>>
  /\ Notify(subs[s].owner, n, <<"next", "complete">>)

\* a variant of the unforced path that never skips
decideAlwaysRecompile(s, current) == spawnAndWatch(s, current)

\* recompile = compare(oldChecksums, currentChecksums), then spawn or skip
decide(s, current) ==
  IF compare(subs[s].old, current) THEN spawnAndWatch(s, current)
  ELSE skipTypeCheck(s, current)

\* unforced: calculate() in the try block calls back
CalculateDone(s, result) ==
  /\ LoopIdle
  /\ s \in SubIds /\ subs[s].pc = "calculate"
  /\ result \in calculateOutcomes(subs[s].node)
  /\ IF result = Rejected
     THEN /\ subs' = [subs EXCEPT ![s].pc = "recalculate"]
          /\ UNCHANGED <<typeCheckStatus, typeCheckProcess, typeCheckLogs,
                         checksumsMem, procs, schedVars>>
     ELSE /\ checksumsMem' = [checksumsMem EXCEPT ![subs[s].node] = result]
          /\ decide(s, result)
  /\ UNCHANGED <<dependencies, hashFiles, fs, emitting>>
  /\ UNCHANGED <<cmpVars, otherVars, ctorVars>>

\* a variant of the catch block that gives up the check
recoverWithoutRecompile(s, result) == skipTypeCheck(s, result)

\* the catch block leaves recompile at true: the subprocess is spawned
recover(s, result) == spawnAndWatch(s, result)

\* unforced: calculate() in the catch block calls back; recompile is still true
RecalculateDone(s, result) ==
  /\ LoopIdle
  /\ s \in SubIds /\ subs[s].pc = "recalculate"
  /\ result \in calculateOutcomes(subs[s].node)
  /\ recover(s, result)
  /\ UNCHANGED <<dependencies, checksumsMem, hashFiles, fs, emitting>>
  /\ UNCHANGED <<cmpVars, otherVars, ctorVars>>

\* a variant of the forced path that consults the stored map like the
\* unforced one
forceDecideByCompare(s, result) ==
  IF result = Rejected
     \/ ~JsonParses(hashFiles[hashPath(subs[s].node)])
     \/ compare(JsonParse(hashFiles[hashPath(subs[s].node)]), result)
  THEN spawnAndWatch(s, result)
  ELSE skipTypeCheck(s, result)

\* forced: whatever calculate() gave, recompile is true
forceDecide(s, result) == spawnAndWatch(s, result)

\* forced: calculate() calls back
ForceCalculateDone(s, result) ==
  /\ LoopIdle
  /\ s \in SubIds /\ subs[s].pc = "forceCalculate"
  /\ result \in calculateOutcomes(subs[s].node)
  /\ forceDecide(s, result)
  /\ UNCHANGED <<dependencies, checksumsMem, hashFiles, fs, emitting>>
  /\ UNCHANGED <<cmpVars, otherVars, ctorVars>>


(***************************************************************************)
(* The type-check subprocess and its events.                                *)
(***************************************************************************)
\* stdout / stderr 'data': _handleTscLogs pushes the chunk to the node's logs
ProcData(pid) ==
  /\ LoopIdle
  /\ pid \in ProcIds /\ procs[pid].state = "running" /\ procs[pid].chunks < MaxLogs
  /\ procs' = [procs EXCEPT ![pid].chunks = @ + 1]
  /\ typeCheckLogs' = [typeCheckLogs EXCEPT ![procs[pid].node] =
        Append(@, [kind |-> "tsc", pid |-> pid, text |-> Missing])]
  /\ UNCHANGED <<dependencies, typeCheckStatus, typeCheckProcess, checksumsMem,
                 hashFiles, fs, subs, emitting>>
  /\ UNCHANGED <<cmpVars, otherVars, ctorVars, schedVars>>

\* the event starts being emitted to the listeners attached at this moment
startEmit(pid, ev, code) ==
  IF procs[pid].listeners = <<>> THEN NoEmit
  ELSE [pid |-> pid, ev |-> ev, code |-> code, todo |-> procs[pid].listeners,
        notified |-> FALSE]

\* the subprocess could not be spawned: ChildProcess emits 'error' (and will
\* emit 'close' with a non-zero code afterwards)
ProcError(pid) ==
  /\ LoopIdle
  /\ pid \in ProcIds /\ procs[pid].state = "running" /\ procs[pid].chunks = 0
  /\ procs' = [procs EXCEPT ![pid].state = "errored"]
  /\ emitting' = startEmit(pid, "error", 1)
  /\ UNCHANGED <<dependencies, typeCheckStatus, typeCheckProcess, typeCheckLogs,
                 checksumsMem, hashFiles, fs, subs>>
  /\ UNCHANGED <<cmpVars, otherVars, ctorVars, schedVars>>

\* the subprocess ended and its output streams are closed: 'close' with the
\* exit code
ProcClose(pid, code) ==
  /\ LoopIdle
  /\ pid \in ProcIds
  /\ \/ procs[pid].state = "running"
     \/ procs[pid].state = "errored" /\ code # 0
  /\ procs' = [procs EXCEPT ![pid].state = "closed", ![pid].code = code]
  /\ emitting' = startEmit(pid, "close", code)
  /\ UNCHANGED <<dependencies, typeCheckStatus, typeCheckProcess, typeCheckLogs,
                 checksumsMem, hashFiles, fs, subs>>
  /\ UNCHANGED <<cmpVars, otherVars, ctorVars, schedVars>>

\* a variant of the 'close' listener that delivers the node on a failure too
listenerNotifiesNodeOnFailure(s, ok) ==
  IF subs[s].pc # "watch" THEN <<>>
  ELSE IF ~ok THEN <<"next", "error">>
  ELSE IF subs[s].kind = "start" /\ ~subs[s].cur.null THEN <<"next">>
  ELSE <<"next", "complete">>

\* what the sequence of subscription s delivers when its listener runs for
\* an event that is a success (close with code 0) or not
listenerNotifications(s, ok) ==
  IF subs[s].pc # "watch" THEN <<>>
  ELSE IF ~ok THEN <<"error">>
  ELSE IF subs[s].kind = "start" /\ ~subs[s].cur.null THEN <<"next">>
  ELSE <<"next", "complete">>

\* a variant of the listener that goes on to write the map after a failure
listenerSubWritesOnFailure(sub, ok) ==
  IF sub.pc # "watch" THEN sub
  ELSE IF sub.kind = "start" /\ ~sub.cur.null
       THEN [sub EXCEPT !.pc = "write", !.nexts = @ + 1]
  ELSE IF ~ok THEN [sub EXCEPT !.pc = "done", !.cur = Null, !.term = "error"]
  ELSE [sub EXCEPT !.pc = "done", !.nexts = @ + 1, !.term = "complete"]

\* the state of subscription s after its listener ran
listenerSub(sub, ok) ==
  IF sub.pc # "watch" THEN sub
  ELSE IF ~ok THEN [sub EXCEPT !.pc = "done", !.cur = Null, !.term = "error"]
  ELSE IF sub.kind = "start" /\ ~sub.cur.null
       THEN [sub EXCEPT !.pc = "write", !.nexts = @ + 1]
  ELSE [sub EXCEPT !.pc = "done", !.nexts = @ + 1, !.term = "complete"]

\* the next listener of the event being emitted runs: the 'close' and
\* 'error' handlers of _watchTypeChecking, and through them the observer
\* callbacks of performTypeChecking
DeliverEvent ==
  /\ emitting.pid # 0
  /\ ~cli.exited
  /\ LET s == Head(emitting.todo)
         n == procs[emitting.pid].node
         ok == emitting.ev = "close" /\ emitting.code = 0
         whats == listenerNotifications(s, ok)
     IN  /\ typeCheckStatus' = [typeCheckStatus EXCEPT ![n] = IF ok THEN "SUCCESS" ELSE "ERROR"]
         /\ subs' = [subs EXCEPT ![s] = listenerSub(@, ok)]
         /\ emitting' = IF Len(emitting.todo) = 1 THEN NoEmit
                        ELSE [emitting EXCEPT !.todo = Tail(@),
                                              !.notified = @ \/ whats # <<>>]
         /\ Notify(subs[s].owner, n, whats)
  /\ UNCHANGED <<dependencies, typeCheckProcess, typeCheckLogs, checksumsMem,
                 hashFiles, fs, procs>>
  /\ UNCHANGED <<cmpVars, otherVars, ctorVars>>

(***************************************************************************)
(* checksums.write, called when the watched check completed.                *)
(***************************************************************************)
WriteOutcomes == {"written", "failed", "truncated"}

\* a variant in which the file holds the map even when the write failed
writeEffectStoresAnyway(s, outcome) ==
  LET n == subs[s].node IN
  /\ hashFiles' = [hashFiles EXCEPT ![hashPath(n)] = JsonStringify(subs[s].cur)]
  /\ checksumsMem' = IF outcome = "written"
                     THEN [checksumsMem EXCEPT ![n] = subs[s].cur]
                     ELSE checksumsMem

\* writeFile(hashPath, JSON.stringify(data), flag 'w') calls back: the file
\* holds the map; or the write failed, before or after the file was truncated
writeEffect(s, outcome) ==
  LET n == subs[s].node IN
  /\ hashFiles' = [hashFiles EXCEPT ![hashPath(n)] =
        CASE outcome = "written" -> JsonStringify(subs[s].cur)
          [] outcome = "truncated" -> Garbage
          [] outcome = "failed" -> @]
  /\ checksumsMem' = IF outcome = "written"
                     THEN [checksumsMem EXCEPT ![n] = subs[s].cur]
                     ELSE checksumsMem

\* then / catch of the write: the sequence completes either way
WriteDone(s, outcome) ==
  /\ LoopIdle
  /\ s \in SubIds /\ subs[s].pc = "write"
  /\ outcome \in WriteOutcomes
  /\ writeEffect(s, outcome)
  /\ subs' = [subs EXCEPT ![s] = [@ EXCEPT !.pc = "done", !.cur = Null,
                                            !.wrote = (outcome = "written"),
                                            !.term = "complete"]]
  /\ Notify(subs[s].owner, subs[s].node, <<"complete">>)
  /\ UNCHANGED <<dependencies, typeCheckStatus, typeCheckProcess, typeCheckLogs,
                 fs, procs, emitting>>
  /\ UNCHANGED <<cmpVars, otherVars, ctorVars>>

(***************************************************************************)
(* The world outside the program.                                           *)
(***************************************************************************)
\* a source file is edited
EditSource(f, c) ==
  /\ LoopIdle
  /\ f \in Files /\ c \in Contents /\ fs[f] # c
  /\ fs' = [fs EXCEPT ![f] = c]
  /\ UNCHANGED <<dependencies, typeCheckStatus, typeCheckProcess, typeCheckLogs,
                 checksumsMem, hashFiles, procs, subs, emitting>>
  /\ UNCHANGED <<cmpVars, otherVars, ctorVars, schedVars>>

\* a cache file is removed, made unreadable or overwritten with other text
DamageCache(path, file) ==
  /\ LoopIdle
  /\ path \in HashPaths /\ file \in {Missing, Unreadable, Garbage}
  /\ hashFiles[path] # file
  /\ hashFiles' = [hashFiles EXCEPT ![path] = file]
  /\ UNCHANGED <<dependencies, typeCheckStatus, typeCheckProcess, typeCheckLogs,
                 checksumsMem, fs, procs, subs, emitting>>
  /\ UNCHANGED <<cmpVars, otherVars, ctorVars, schedVars>>


(***************************************************************************)
(* Initial values of the parts of the state.                                *)
(***************************************************************************)
CmpIdle ==
  /\ cmpOld = Null /\ cmpCur = Null /\ cmpRes = "none" /\ cmpRev = "none"

CtorIdle ==
  /\ manifest = [n \in Nodes |-> <<>>]
  /\ objs = <<>> /\ nodes = <<>> /\ stack = <<>> /\ ctorStatus = "idle"

NoRun == [roots |-> {}, target |-> {}, onlySelf |-> FALSE, force |-> FALSE,
          state |-> [n \in Nodes |-> "idle"], completed |-> {}, failed |-> {},
          stream |-> "none"]
NoCli == [cmd |-> "none", promise |-> "pending", exited |-> FALSE, exitCode |-> 0,
          crashed |-> FALSE,
          spinners |-> [n \in Nodes |-> "none"]]

\* nothing transpiled, no observer registered, no view asked for, no read made
NoRead == [node |-> "none", state |-> "none", value |-> Null]

OtherIdle ==
  /\ readRes = NoRead
  /\ viewNode = "none" /\ viewDependencies = <<>> /\ viewDependent = <<>>
  /\ viewParents = <<>>
  /\ transpilingStatus = [n \in Nodes |-> "NOT_TRANSPILED"]
  /\ transpilingPromise = [n \in Nodes |-> 0]
  /\ promises = <<>> /\ tsubs = <<>>
  /\ ipc = "none" /\ ipcCalls = 0
  /\ workspaceName = [n \in Nodes |-> NameSegments(n)]
  /\ unsubscribed = {}

SchedIdle == run = NoRun /\ events = [n \in Nodes |-> <<>>] /\ cli = NoCli

\* the graph core <- lib <- svc
Chain == [n \in Nodes |->
            CASE n = "core" -> <<>> [] n = "lib" -> <<"core">> [] n = "svc" -> <<"lib">>]

\* the nodes as their constructor leaves them, with nothing spawned or subscribed
NodesFresh ==
  /\ typeCheckStatus = [n \in Nodes |-> "NOT_CHECKED"]
  /\ typeCheckProcess = [n \in Nodes |-> 0]
  /\ typeCheckLogs = [n \in Nodes |-> <<>>]
  /\ checksumsMem = [n \in Nodes |-> Null]
  /\ procs = <<>> /\ subs = <<>> /\ emitting = NoEmit

(***************************************************************************)
(* SpecNode: requesters subscribe at will to the type-check of one node of  *)
(* the chain, while its sources and its cache file change under it.         *)
(***************************************************************************)
NodeUnderTest == "lib"

\* maps an earlier run can have left in the cache: over the sources of today,
\* in any order, with the hashes of some content
StoredMaps(n) ==
  {m \in ChecksumMaps(calculateSources(n)) : Len(m.entries) = Cardinality(calculateSources(n))}

InitNode ==
  /\ CmpIdle /\ CtorIdle /\ SchedIdle /\ NodesFresh /\ OtherIdle
  /\ dependencies = Chain
  /\ fs = [f \in Files |-> 1]
  /\ \E file \in {Missing, Garbage}
                 \cup {JsonStringify(m) : m \in StoredMaps(NodeUnderTest)} :
       hashFiles = [p \in HashPaths |-> IF p = hashPath(NodeUnderTest) THEN file ELSE Missing]

NextNode ==
  \/ \E force \in BOOLEAN : ClientSubscribe(NodeUnderTest, force)
  \/ \E s \in SubIds : ReadDone(s)
  \/ \E s \in SubIds : \E r \in calculateOutcomes(subs[s].node) : CalculateDone(s, r)
  \/ \E s \in SubIds : \E r \in calculateOutcomes(subs[s].node) : RecalculateDone(s, r)
  \/ \E s \in SubIds : \E r \in calculateOutcomes(subs[s].node) : ForceCalculateDone(s, r)
  \/ \E pid \in ProcIds : ProcError(pid)
  \/ \E pid \in ProcIds : \E code \in {0, 1} : ProcClose(pid, code)
  \/ DeliverEvent
  \/ \E s \in SubIds : \E o \in WriteOutcomes : WriteDone(s, o)

SpecNode == InitNode /\ [][NextNode]_vars


(***************************************************************************)
(* The recompilation scheduler: buildOne / buildAll.                        *)
(***************************************************************************)
\* the nodes a request covers: the node, or all the nodes of the graph (the
\* command enabled them all), and unless onlySelf their transitive dependencies
buildTarget(roots, onlySelf) ==
  IF onlySelf THEN roots
  ELSE roots \cup UNION {Range(getDependencies(dependencies, n)) : n \in roots}

\* the position of a node in graph.getNodes()
NodeIndex(n) == CASE n = "core" -> 1 [] n = "lib" -> 2 [] n = "svc" -> 3

\* the scheduler walks the nodes in order: it emits the start event of the
\* first node that may start and subscribes to its type-check
SchedStart(n) ==
  /\ mayStart(n)
  /\ \A m \in Nodes : mayStart(m) => NodeIndex(n) <= NodeIndex(m)
  /\ subscribe(n, run.force, "sched")
  /\ LET started == schedEmit([run |-> [run EXCEPT !.state[n] = "started"],
                               events |-> events, cli |-> cli],
                              "TYPE_CHECK_IN_PROGRESS", n)
         st == schedOnNotifications(started, n, subscribeNotifications(n))
     IN  run' = st.run /\ events' = st.events /\ cli' = st.cli
  /\ UNCHANGED <<cmpVars, otherVars, ctorVars>>

\* nothing of the run is in flight and nothing more can start
runSettled ==
  /\ \A n \in run.target : run.state[n] # "started"
  /\ \A n \in run.target : run.state[n] = "succeeded" => n \in run.completed
  /\ \A n \in run.target : ~mayStart(n)

\* the node whose failure event was emitted first
firstFailed == CHOOSE n \in run.failed : TRUE

\* the stream ends: it completes when the whole target succeeded, and ends in
\* error when a node failed, once what was running has settled
SchedFinish ==
  /\ run.stream = "open" /\ cli.cmd # "watch"
  /\ ~cli.exited /\ emitting.pid = 0
  /\ runSettled
  /\ IF \A n \in run.target : run.state[n] = "succeeded"
     THEN /\ run' = [run EXCEPT !.stream = "complete"]
          /\ cli' = typeCheckOnComplete(cli)
     ELSE /\ run' = [run EXCEPT !.stream = "error"]
          /\ cli' = typeCheckOnError(cli, firstFailed)
  /\ UNCHANGED <<events, nodeVars, cmpVars, otherVars, ctorVars>>

(***************************************************************************)
(* The command: typeCheck and build.                                        *)
(***************************************************************************)
\* typeCheck(scheduler, target, onlySelf, force): subscribes to buildOne of a
\* node, or to buildAll of the graph
typeCheck(roots, onlySelf, force, cmd) ==
  /\ run.stream = "none"
  /\ run' = [roots |-> roots, target |-> buildTarget(roots, onlySelf),
             onlySelf |-> onlySelf,
             force |-> force, state |-> [n \in Nodes |-> "idle"],
             completed |-> {}, failed |-> {}, stream |-> "open"]
  /\ cli' = [cli EXCEPT !.cmd = cmd]
  /\ UNCHANGED <<events, nodeVars, cmpVars, otherVars, ctorVars>>

\* the targets of a command: one node (cmd.S) or the whole graph
Roots == {{n} : n \in Nodes} \cup {Nodes}

\* build(cmd): typeCheck with force = true, then process.exit
BuildCommand(roots, onlySelf) ==
  /\ roots \in Roots
  /\ typeCheck(roots, onlySelf, TRUE, "build")

\* another command calls typeCheck and goes on when its promise settles
TypeCheckCall(roots, onlySelf, force) ==
  /\ roots \in Roots
  /\ typeCheck(roots, onlySelf, force, "typeCheck")

\* build: the awaited promise settled, process.exit(0) or process.exit(1)
BuildExit ==
  /\ cli.cmd = "build" /\ ~cli.exited
  /\ cli.promise # "pending"
  /\ emitting.pid = 0 /\ ~SchedulerBusy
  /\ cli' = [cli EXCEPT !.exited = TRUE,
                        !.exitCode = IF cli.promise = "resolved" THEN 0 ELSE 1]
  /\ UNCHANGED <<run, events, nodeVars, cmpVars, otherVars, ctorVars>>

(***************************************************************************)
(* SpecBuild: one build of a target over an acyclic graph.                  *)
(***************************************************************************)
\* the acyclic graphs over the three nodes: any subset of the edges
\* lib -> core, svc -> core, svc -> lib
Dags ==
  {[n \in Nodes |->
      CASE n = "core" -> <<>>
        [] n = "lib"  -> IF lc THEN <<"core">> ELSE <<>>
        [] n = "svc"  -> (IF sc THEN <<"core">> ELSE <<>>) \o (IF sl THEN <<"lib">> ELSE <<>>)]
   : lc \in BOOLEAN, sc \in BOOLEAN, sl \in BOOLEAN}

\* calculate's result with the hashes inserted in one fixed order
calculateInOrder(n) == CHOOSE m \in calculateResults(n) : TRUE

InitBuild ==
  /\ CmpIdle /\ CtorIdle /\ SchedIdle /\ NodesFresh /\ OtherIdle
  /\ dependencies \in Dags
  /\ fs = [f \in Files |-> 1]
  /\ \E cached \in BOOLEAN :
       hashFiles = [p \in HashPaths |->
                      IF cached
                      THEN JsonStringify(calculateInOrder(CHOOSE n \in Nodes : hashPath(n) = p))
                      ELSE Missing]

NextBuild ==
  \/ \E roots \in Roots : \E onlySelf \in BOOLEAN : BuildCommand(roots, onlySelf)
  \/ \E roots \in Roots : \E onlySelf \in BOOLEAN : \E force \in BOOLEAN :
       TypeCheckCall(roots, onlySelf, force)
  \/ \E n \in Nodes : SchedStart(n)
  \/ SchedFinish
  \/ BuildExit
  \/ \E s \in SubIds : ReadDone(s)
  \/ \E s \in SubIds : \E r \in {Rejected, calculateInOrder(subs[s].node)} : CalculateDone(s, r)
  \/ \E s \in SubIds : \E r \in {Rejected, calculateInOrder(subs[s].node)} : RecalculateDone(s, r)
  \/ \E s \in SubIds : \E r \in {Rejected, calculateInOrder(subs[s].node)} : ForceCalculateDone(s, r)
  \/ \E pid \in ProcIds : \E code \in {0, 1} : ProcClose(pid, code)
  \/ DeliverEvent
  \/ \E s \in SubIds : \E o \in {"written", "failed"} : WriteDone(s, o)

SpecBuild == InitBuild /\ [][NextBuild]_vars

(***************************************************************************)
(* SpecWatch: a source changes under a watched graph and the scheduler      *)
(* rebuilds what the change reaches.                                        *)
(***************************************************************************)
\* fileChanged(node): the node and its dependents are re-queued, unforced,
\* and started in dependency order; the watch stream stays open
fileChanged(n) ==
  /\ run.stream = "none"
  /\ run' = [roots |-> {n}, target |-> {n} \cup Range(getDependent(dependencies, n)),
             onlySelf |-> TRUE, force |-> FALSE,
             state |-> [m \in Nodes |-> "idle"],
             completed |-> {}, failed |-> {}, stream |-> "open"]
  /\ cli' = [cli EXCEPT !.cmd = "watch"]
  /\ UNCHANGED <<events, nodeVars, cmpVars, otherVars, ctorVars>>

\* watcher.on('change'): a path under the node's src changed
WatcherOnChange(n) ==
  /\ LoopIdle
  /\ fileChanged(n)

\* the one edit of a behaviour: a source takes another content before the
\* watcher reports it
EditBeforeChange(f, c) ==
  /\ run.stream = "none" /\ fs = [g \in Files |-> 1]
  /\ EditSource(f, c)

InitWatch == InitBuild

NextWatch ==
  \/ \E f \in Files : \E c \in Contents : EditBeforeChange(f, c)
  \/ \E n \in Nodes : WatcherOnChange(n)
  \/ \E n \in Nodes : SchedStart(n)
  \/ \E s \in SubIds : ReadDone(s)
  \/ \E s \in SubIds : \E r \in {Rejected, calculateInOrder(subs[s].node)} : CalculateDone(s, r)
  \/ \E s \in SubIds : \E r \in {Rejected, calculateInOrder(subs[s].node)} : RecalculateDone(s, r)
  \/ \E pid \in ProcIds : \E code \in {0, 1} : ProcClose(pid, code)
  \/ DeliverEvent
  \/ \E s \in SubIds : \E o \in {"written", "failed"} : WriteDone(s, o)

SpecWatch == InitWatch /\ [][NextWatch]_vars

(***************************************************************************)
(* SpecCache: one requester asks for the type-check of a node again and     *)
(* again, each time after the previous check ended, while the sources and   *)
(* the cache file change, the subprocess writes output, and the cache may   *)
(* be unreadable.                                                           *)
(***************************************************************************)
\* what the cache file of a node can be: missing, unreadable, not JSON, or a
\* map stored by an earlier run
CacheFiles(n) ==
  {Missing, Unreadable, Garbage} \cup {JsonStringify(m) : m \in StoredMaps(n)}

InitCache ==
  /\ CmpIdle /\ CtorIdle /\ SchedIdle /\ NodesFresh /\ OtherIdle
  /\ dependencies = Chain
  /\ fs = [f \in Files |-> 1]
  /\ \E file \in {Missing, Unreadable, Garbage,
                   JsonStringify(calculateInOrder(NodeUnderTest))} :
       hashFiles = [p \in HashPaths |-> IF p = hashPath(NodeUnderTest) THEN file ELSE Missing]

\* every invocation made so far is over: its sequence has ended and its
\* subprocess has closed
InvocationsOver ==
  /\ emitting.pid = 0
  /\ \A s \in SubIds : subs[s].pc = "done"
  /\ \A pid \in ProcIds : procs[pid].state = "closed"

\* a source is edited between two invocations
EditBetweenChecks(f, c) ==
  /\ InvocationsOver
  /\ EditSource(f, c)

\* performTypeChecking(force) is subscribed to once the invocation before it
\* is over
Request(n, force) ==
  /\ InvocationsOver
  /\ ClientSubscribe(n, force)

NextCache ==
  \/ \E force \in BOOLEAN : Request(NodeUnderTest, force)
  \/ \E s \in SubIds : ReadDone(s)
  \/ \E s \in SubIds : \E r \in {Rejected, calculateInOrder(subs[s].node)} : CalculateDone(s, r)
  \/ \E s \in SubIds : \E r \in {Rejected, calculateInOrder(subs[s].node)} : RecalculateDone(s, r)
  \/ \E s \in SubIds : \E r \in {Rejected, calculateInOrder(subs[s].node)} : ForceCalculateDone(s, r)
  \/ \E pid \in ProcIds : ProcData(pid)
  \/ \E pid \in ProcIds : ProcError(pid)
  \/ \E pid \in ProcIds : \E code \in {0, 1} : ProcClose(pid, code)
  \/ DeliverEvent
  \/ \E s \in SubIds : \E o \in WriteOutcomes : WriteDone(s, o)
  \/ \E f \in calculateSources(NodeUnderTest) : \E c \in Contents :
       EditBetweenChecks(f, c)

SpecCache == InitCache /\ [][NextCache]_vars

(***************************************************************************)
(* SpecDeps: unforced type-checks of the node at the top of the chain, one  *)
(* after the other, while its sources and those of its dependencies are     *)
(* edited between the checks.                                               *)
(***************************************************************************)
DependentUnderTest == "svc"

InitDeps ==
  /\ CmpIdle /\ CtorIdle /\ SchedIdle /\ NodesFresh /\ OtherIdle
  /\ dependencies = Chain
  /\ fs = [f \in Files |-> 1]
  /\ \E file \in {Missing, JsonStringify(calculateInOrder(DependentUnderTest))} :
       hashFiles = [p \in HashPaths |->
                      IF p = hashPath(DependentUnderTest) THEN file ELSE Missing]

NextDeps ==
  \/ Request(DependentUnderTest, FALSE)
  \/ \E s \in SubIds : ReadDone(s)
  \/ \E s \in SubIds : CalculateDone(s, calculateInOrder(subs[s].node))
  \/ \E pid \in ProcIds : \E code \in {0, 1} : ProcClose(pid, code)
  \/ DeliverEvent
  \/ \E s \in SubIds : WriteDone(s, "written")
  \/ \E f \in calculateSources(DependentUnderTest) : \E c \in Contents :
       EditBetweenChecks(f, c)

SpecDeps == InitDeps /\ [][NextDeps]_vars

(***************************************************************************)
(* SpecUnsub: requesters of type-checks of one node, one check after the    *)
(* other, who may unsubscribe before their sequence has ended.              *)
(***************************************************************************)
\* subscription.unsubscribe(): the observables of performTypeChecking and
\* _watchTypeChecking return no teardown, so only the subscriber is closed
Unsubscribe(s) ==
  /\ LoopIdle
  /\ s \in SubIds /\ s \notin unsubscribed
  /\ subs[s].owner = "client" /\ subs[s].term = "none"
  /\ unsubscribed' = unsubscribed \cup {s}
  /\ UNCHANGED <<readRes, viewVars, transpileVars, workspaceName, cmpVars, ctorVars,
                 nodeVars, schedVars>>

InitUnsub == InitCache

NextUnsub ==
  \/ \E force \in BOOLEAN : Request(NodeUnderTest, force)
  \/ \E s \in SubIds : ReadDone(s)
  \/ \E s \in SubIds : CalculateDone(s, calculateInOrder(subs[s].node))
  \/ \E s \in SubIds : RecalculateDone(s, calculateInOrder(subs[s].node))
  \/ \E s \in SubIds : ForceCalculateDone(s, calculateInOrder(subs[s].node))
  \/ \E pid \in ProcIds : \E code \in {0, 1} : ProcClose(pid, code)
  \/ DeliverEvent
  \/ \E s \in SubIds : WriteDone(s, "written")
  \/ \E s \in SubIds : Unsubscribe(s)

SpecUnsub == InitUnsub /\ [][NextUnsub]_vars

(***************************************************************************)
(* SpecRace: unforced type-checks of one node of a project without cache,   *)
(* one after the other, while the sources are edited at any moment, also    *)
(* while a subprocess runs.                                                 *)
(***************************************************************************)
\* tsc reads the sources of the project it checks, at some moment of its run
TscReadsSources(pid) ==
  /\ LoopIdle
  /\ pid \in ProcIds /\ procs[pid].state = "running" /\ procs[pid].sources = NotRead
  /\ procs' = [procs EXCEPT ![pid].sources =
                 [f \in Files |-> IF f \in calculateSources(procs[pid].node)
                                  THEN fs[f] ELSE 0]]
  /\ UNCHANGED <<dependencies, typeCheckStatus, typeCheckProcess, typeCheckLogs,
                 checksumsMem, hashFiles, fs, subs, emitting>>
  /\ UNCHANGED <<cmpVars, otherVars, ctorVars, schedVars>>

\* tsc exits once it has read its sources
TscExit(pid, code) ==
  /\ pid \in ProcIds /\ procs[pid].sources # NotRead
  /\ ProcClose(pid, code)

InitRace ==
  /\ CmpIdle /\ CtorIdle /\ SchedIdle /\ NodesFresh /\ OtherIdle
  /\ dependencies = Chain
  /\ fs = [f \in Files |-> 1]
  /\ hashFiles = [p \in HashPaths |-> Missing]

NextRace ==
  \/ Request(NodeUnderTest, FALSE)
  \/ \E s \in SubIds : ReadDone(s)
  \/ \E s \in SubIds : CalculateDone(s, calculateInOrder(subs[s].node))
  \/ \E pid \in ProcIds : TscReadsSources(pid)
  \/ \E pid \in ProcIds : \E code \in {0, 1} : TscExit(pid, code)
  \/ DeliverEvent
  \/ \E s \in SubIds : WriteDone(s, "written")
  \/ \E f \in calculateSources(NodeUnderTest) : \E c \in Contents : EditSource(f, c)

SpecRace == InitRace /\ [][NextRace]_vars

(***************************************************************************)
(* Node.transpile, _startTranspiling and setTranspilingStatus, with the     *)
(* IPC manager registered on the nodes or not.                              *)
(***************************************************************************)
\* what _ipc can be: not registered, a manager whose graphUpdated() returns,
\* or one whose graphUpdated() throws
IpcKinds == {"none", "ok", "throws"}

\* setTranspilingStatus(status) on the node state st: the field is set, then
\* the hook is called when there is a manager; when the hook throws, the
\* exception leaves the method
setTranspilingStatus(st, n, status) ==
  [st EXCEPT !.status[n] = status,
             !.calls = IF ipc # "none" THEN @ + 1 ELSE @,
             !.threw = (ipc = "throws")]

TranspileState == [status |-> transpilingStatus, calls |-> ipcCalls, threw |-> FALSE]

TSubIds == 1..Len(tsubs)
PromiseIds == 1..Len(promises)

\* a callback of a settled promise has still to run: the micro-tasks of a
\* settled promise run before the event loop takes the next I/O completion
ReactionsPending ==
  \E ts \in TSubIds :
    \/ tsubs[ts].pc = "catch"
    \/ tsubs[ts].pc = "await" /\ promises[tsubs[ts].promise].state # "pending"

\* compileFiles has just settled a promise and none of its callbacks has run
\* yet: no code of a requester runs in between
SettledUnseen ==
  \E pid \in PromiseIds :
    /\ promises[pid].compile \in {"done", "failed"}
    /\ \E ts \in TSubIds : tsubs[ts].promise = pid
    /\ \A ts \in TSubIds : tsubs[ts].promise = pid => tsubs[ts].pc = "await"

\* registerIPCServer(ipc): the manager is stored on the node (the graph
\* registers one manager on all its nodes)
registerIPCServer(kind) ==
  /\ ipc = "none"
  /\ ipc' = kind
  /\ UNCHANGED <<transpilingStatus, transpilingPromise, promises, tsubs, ipcCalls>>
  /\ UNCHANGED <<readRes, viewVars, workspaceName, unsubscribed, cmpVars, ctorVars, nodeVars, schedVars>>

\* a variant of transpile() that compiles only a node that is not TRANSPILED
\* and hands the earlier result to the subscriber otherwise
TranspileSubscribeCached(n) ==
  /\ Len(tsubs) < MaxSubs
  /\ ~SettledUnseen
  /\ IF transpilingStatus[n] \in {"NOT_TRANSPILED", "ERROR_TRANSPILING"}
     THEN LET st == setTranspilingStatus(TranspileState, n, "TRANSPILING")
              pid == Len(promises) + 1
          IN  /\ transpilingStatus' = st.status
              /\ ipcCalls' = st.calls
              /\ promises' = Append(promises,
                     IF st.threw
                     THEN [node |-> n, state |-> "rejected", compile |-> "none"]
                     ELSE [node |-> n, state |-> "pending", compile |-> "running"])
              /\ transpilingPromise' = [transpilingPromise EXCEPT ![n] = pid]
              /\ tsubs' = Append(tsubs, [node |-> n, promise |-> pid, pc |-> "await",
                                         nexts |-> 0, seen |-> "none", term |-> "none"])
     ELSE /\ tsubs' = Append(tsubs, [node |-> n, promise |-> transpilingPromise[n],
                                     pc |-> "await", nexts |-> 0, seen |-> "none",
                                     term |-> "none"])
          /\ UNCHANGED <<transpilingStatus, ipcCalls, promises, transpilingPromise>>
  /\ UNCHANGED <<ipc, readRes, viewVars, workspaceName, unsubscribed, cmpVars, ctorVars, nodeVars, schedVars>>

\* subscribing to transpile(): unless the node is TRANSPILING,
\* _startTranspiling() is called; it is async, so an exception of
\* setTranspilingStatus rejects the promise it returns and compileFiles is not
\* called. Then the then/catch callbacks are attached to transpilingPromise.
TranspileSubscribe(n) ==
  /\ Len(tsubs) < MaxSubs
  /\ ~SettledUnseen
  /\ IF transpilingStatus[n] # "TRANSPILING"
     THEN LET st == setTranspilingStatus(TranspileState, n, "TRANSPILING")
              pid == Len(promises) + 1
          IN  /\ transpilingStatus' = st.status
              /\ ipcCalls' = st.calls
              /\ promises' = Append(promises,
                     IF st.threw
                     THEN [node |-> n, state |-> "rejected", compile |-> "none"]
                     ELSE [node |-> n, state |-> "pending", compile |-> "running"])
              /\ transpilingPromise' = [transpilingPromise EXCEPT ![n] = pid]
              /\ tsubs' = Append(tsubs, [node |-> n, promise |-> pid, pc |-> "await",
                                         nexts |-> 0, seen |-> "none", term |-> "none"])
     ELSE /\ tsubs' = Append(tsubs, [node |-> n, promise |-> transpilingPromise[n],
                                     pc |-> "await", nexts |-> 0, seen |-> "none",
                                     term |-> "none"])
          /\ UNCHANGED <<transpilingStatus, ipcCalls, promises, transpilingPromise>>
  /\ UNCHANGED <<ipc, readRes, viewVars, workspaceName, unsubscribed, cmpVars, ctorVars, nodeVars, schedVars>>

\* compileFiles settles: the sources were transpiled, or not
CompileDone(pid, ok) ==
  /\ pid \in PromiseIds /\ promises[pid].state = "pending"
  /\ ~ReactionsPending
  /\ promises' = [promises EXCEPT ![pid] =
        [@ EXCEPT !.state = IF ok THEN "resolved" ELSE "rejected",
                  !.compile = IF ok THEN "done" ELSE "failed"]]
  /\ UNCHANGED <<transpilingStatus, transpilingPromise, tsubs, ipc, ipcCalls>>
  /\ UNCHANGED <<readRes, viewVars, workspaceName, unsubscribed, cmpVars, ctorVars, nodeVars, schedVars>>

\* the catch callback: setTranspilingStatus(ERROR_TRANSPILING), then
\* observer.error(err) unless the hook threw
catchCallback(ts) ==
  LET st == setTranspilingStatus(TranspileState, tsubs[ts].node, "ERROR_TRANSPILING") IN
  /\ transpilingStatus' = st.status
  /\ ipcCalls' = st.calls
  /\ tsubs' = [tsubs EXCEPT ![ts] =
        [@ EXCEPT !.pc = "done", !.term = IF st.threw THEN @ ELSE "error"]]

\* the then callback: observer.next(this), where the subscriber sees the
\* node with the status it has at that moment, setTranspilingStatus(TRANSPILED),
\* then observer.complete(); when the hook throws, the promise returned by
\* then() is rejected and its catch callback is due
thenCallback(ts) ==
  LET st == setTranspilingStatus(TranspileState, tsubs[ts].node, "TRANSPILED")
      seen == transpilingStatus[tsubs[ts].node]
  IN
  /\ transpilingStatus' = st.status
  /\ ipcCalls' = st.calls
  /\ tsubs' = [tsubs EXCEPT ![ts] =
        IF st.threw THEN [@ EXCEPT !.pc = "catch", !.nexts = @ + 1, !.seen = seen]
        ELSE [@ EXCEPT !.pc = "done", !.nexts = @ + 1, !.seen = seen,
                       !.term = "complete"]]

\* the promise a subscription waits for is settled and its reaction runs;
\* the reactions of one promise run in the order they were attached
TranspileReact(ts) ==
  /\ ts \in TSubIds /\ tsubs[ts].pc = "await"
  /\ promises[tsubs[ts].promise].state # "pending"
  /\ \A u \in TSubIds :
       (u < ts /\ tsubs[u].promise = tsubs[ts].promise) => tsubs[u].pc # "await"
  /\ IF promises[tsubs[ts].promise].state = "resolved"
     THEN thenCallback(ts)
     ELSE catchCallback(ts)
  /\ UNCHANGED <<transpilingPromise, promises, ipc>>
  /\ UNCHANGED <<readRes, viewVars, workspaceName, unsubscribed, cmpVars, ctorVars, nodeVars, schedVars>>

\* the catch callback of a subscription whose then callback threw
TranspileCatch(ts) ==
  /\ ts \in TSubIds /\ tsubs[ts].pc = "catch"
  /\ catchCallback(ts)
  /\ UNCHANGED <<transpilingPromise, promises, ipc>>
  /\ UNCHANGED <<readRes, viewVars, workspaceName, unsubscribed, cmpVars, ctorVars, nodeVars, schedVars>>

(***************************************************************************)
(* SpecTranspile: requesters subscribe to transpile() of a node and ask for *)
(* forced or unforced type-checks of it, one after the other, with each     *)
(* kind of IPC manager.                                                     *)
(***************************************************************************)
InitTranspile ==
  /\ CmpIdle /\ CtorIdle /\ SchedIdle /\ NodesFresh
  /\ readRes = NoRead
  /\ viewNode = "none" /\ viewDependencies = <<>> /\ viewDependent = <<>>
  /\ viewParents = <<>>
  /\ transpilingStatus = [n \in Nodes |-> "NOT_TRANSPILED"]
  /\ transpilingPromise = [n \in Nodes |-> 0]
  /\ promises = <<>> /\ tsubs = <<>>
  /\ ipc = "none" /\ ipcCalls = 0
  /\ workspaceName = [n \in Nodes |-> NameSegments(n)]
  /\ unsubscribed = {}
  /\ dependencies = Chain
  /\ fs = [f \in Files |-> 1]
  /\ hashFiles = [p \in HashPaths |-> Missing]

NextTranspile ==
  \/ \E kind \in IpcKinds \ {"none"} : registerIPCServer(kind)
  \/ TranspileSubscribe(NodeUnderTest)
  \/ \E pid \in PromiseIds : \E ok \in BOOLEAN : CompileDone(pid, ok)
  \/ \E ts \in TSubIds : TranspileReact(ts)
  \/ \E ts \in TSubIds : TranspileCatch(ts)
  \/ \E force \in BOOLEAN : Request(NodeUnderTest, force)
  \/ \E s \in SubIds : ReadDone(s)
  \/ \E s \in SubIds : CalculateDone(s, calculateInOrder(subs[s].node))
  \/ \E s \in SubIds : ForceCalculateDone(s, calculateInOrder(subs[s].node))
  \/ \E pid \in ProcIds : \E code \in {0, 1} : ProcClose(pid, code)
  \/ DeliverEvent
  \/ \E s \in SubIds : WriteDone(s, "written")

SpecTranspile == InitTranspile /\ [][NextTranspile]_vars

(***************************************************************************)
(* SpecRead: checksums.read called on the cache file of a node.             *)
(***************************************************************************)

InitRead ==
  /\ CmpIdle /\ CtorIdle /\ SchedIdle /\ NodesFresh /\ OtherIdle
  /\ dependencies = Chain
  /\ fs = [f \in Files |-> 1]
  /\ hashFiles \in {h \in [HashPaths -> UNION {CacheFiles(n) : n \in Nodes}] :
                      \A n \in Nodes : h[hashPath(n)] \in CacheFiles(n)}

\* checksums(node, logger).read() settles
ReadCall(n) ==
  /\ readRes.state = "none"
  /\ LET res == read(hashFiles[hashPath(n)]) IN
     readRes' = [node |-> n, state |-> res.state, value |-> res.value]
  /\ UNCHANGED <<viewVars, transpileVars, workspaceName, unsubscribed, cmpVars, ctorVars, nodeVars, schedVars>>

NextRead == \E n \in Nodes : ReadCall(n)

SpecRead == InitRead /\ [][NextRead]_vars

(***************************************************************************)
(* SpecPaths: the workspaces of a project carry any distinct package names, *)
(* scoped or not; the nodes write their maps to the cache and read it.      *)
(***************************************************************************)
\* package names a workspace can carry, whatever its directory is called
PackageNames ==
  {<<"@mila", "core">>, <<"@mila", "lib">>, <<"@mila", "svc">>,
   <<"@acme", "core">>, <<"lib">>}

InitPaths ==
  /\ CmpIdle /\ CtorIdle /\ SchedIdle /\ NodesFresh
  /\ readRes = NoRead
  /\ viewNode = "none" /\ viewDependencies = <<>> /\ viewDependent = <<>>
  /\ viewParents = <<>>
  /\ transpilingStatus = [n \in Nodes |-> "NOT_TRANSPILED"]
  /\ transpilingPromise = [n \in Nodes |-> 0]
  /\ promises = <<>> /\ tsubs = <<>>
  /\ ipc = "none" /\ ipcCalls = 0
  /\ workspaceName \in {w \in [Nodes -> PackageNames] :
                           \A n, m \in Nodes : n # m => w[n] # w[m]}
  /\ unsubscribed = {}
  /\ dependencies = Chain
  /\ fs = [f \in Files |-> 1]
  /\ hashFiles = [p \in HashPaths |-> Missing]

\* checksums(node, logger).write(data) with the map calculate() gives for the
\* node: the file at the node's hashPath holds the map
PathWrite(n) ==
  /\ hashFiles' = [hashFiles EXCEPT ![hashPathOf(workspaceName[n])] =
                     JsonStringify(calculateInOrder(n))]
  /\ UNCHANGED <<dependencies, typeCheckStatus, typeCheckProcess, typeCheckLogs,
                 checksumsMem, fs, procs, subs, emitting>>
  /\ UNCHANGED <<cmpVars, ctorVars, schedVars, otherVars>>

\* checksums(node, logger).read() settles
PathRead(n) ==
  /\ LET res == read(hashFiles[hashPathOf(workspaceName[n])]) IN
     readRes' = [node |-> n, state |-> res.state, value |-> res.value]
  /\ UNCHANGED <<viewVars, transpileVars, workspaceName, unsubscribed, cmpVars, ctorVars, nodeVars,
                 schedVars>>

NextPaths ==
  \/ \E n \in Nodes : PathWrite(n)
  \/ \E n \in Nodes : PathRead(n)

SpecPaths == InitPaths /\ [][NextPaths]_vars

(***************************************************************************)
(* SpecCompare: checksums.compare called on two checksums objects.          *)
(***************************************************************************)
BoolText(b) == IF b THEN "true" ELSE "false"

InitCompare ==
  /\ cmpOld \in {Null} \cup ChecksumMaps(Files)
  /\ cmpCur \in ChecksumMaps(Files)
  /\ cmpRes = "none" /\ cmpRev = "none"
  /\ CtorIdle /\ SchedIdle /\ NodesFresh /\ OtherIdle
  /\ dependencies = Chain
  /\ fs = [f \in Files |-> 1]
  /\ hashFiles = [p \in HashPaths |-> Missing]

\* compare(old, current)
CompareCall ==
  /\ cmpRes = "none"
  /\ cmpRes' = BoolText(compare(cmpOld, cmpCur))
  /\ UNCHANGED <<cmpOld, cmpCur, cmpRev, ctorVars, otherVars, nodeVars, schedVars>>

\* compare(current, old), for two objects
CompareSwapped ==
  /\ cmpRev = "none" /\ ~cmpOld.null
  /\ cmpRev' = BoolText(compare(cmpCur, cmpOld))
  /\ UNCHANGED <<cmpOld, cmpCur, cmpRes, ctorVars, otherVars, nodeVars, schedVars>>

NextCompare == CompareCall \/ CompareSwapped

SpecCompare == InitCompare /\ [][NextCompare]_vars

(***************************************************************************)
(* SpecCtor: the graph is built from the manifests of the workspaces, one   *)
(* Node constructor calling the next.                                       *)
(***************************************************************************)
\* a name in a manifest that is no workspace of the project
External == "ext"

\* dependencies.concat(devDependencies) of a workspace: up to two names
DescriptorLists(n) == SeqsOver((Nodes \ {n}) \cup {External}, 2)

\* a variant of the lookup that never finds a node in the shared set
alreadyBuiltNever(name) == 0

\* the first node of the shared set with this name (0 when there is none):
\* Array.from(nodes).find((n) => n.name === name)
alreadyBuilt(name) ==
  LET found == {i \in 1..Len(nodes) : objs[nodes[i]].name = name}
  IN  IF found = {} THEN 0 ELSE nodes[CHOOSE i \in found : \A j \in found : i <= j]

InitCtor ==
  /\ manifest \in {m \in [Nodes -> UNION {DescriptorLists(n) : n \in Nodes}] :
                     \A n \in Nodes : m[n] \in DescriptorLists(n)}
  /\ objs = <<>> /\ nodes = <<>> /\ stack = <<>> /\ ctorStatus = "idle"
  /\ CmpIdle /\ SchedIdle /\ NodesFresh /\ OtherIdle
  /\ dependencies = [n \in Nodes |-> <<>>]
  /\ fs = [f \in Files |-> 1]
  /\ hashFiles = [p \in HashPaths |-> Missing]

\* new Node(...) is entered: the fields are set and the loop is about to start
enterConstructor(name) ==
  /\ objs' = Append(objs, [name |-> name, dependencies |-> <<>>, built |-> FALSE])
  /\ stack' = Append(stack, [obj |-> Len(objs) + 1, i |-> 1, dependentWorkspaces |-> <<>>])

\* the graph constructs the node of a workspace that no node of the set has
GraphNewNode(w) ==
  /\ ctorStatus \in {"idle", "building"} /\ stack = <<>>
  /\ w \in Nodes /\ alreadyBuilt(w) = 0
  /\ enterConstructor(w)
  /\ ctorStatus' = "building"
  /\ UNCHANGED <<manifest, nodes, cmpVars, otherVars, nodeVars, schedVars>>

\* every workspace has its node: the graph is built
GraphBuilt ==
  /\ ctorStatus = "building" /\ stack = <<>>
  /\ \A w \in Nodes : alreadyBuilt(w) # 0
  /\ ctorStatus' = "done"
  /\ dependencies' = [n \in Nodes |->
        LET ds == objs[alreadyBuilt(n)].dependencies
        IN  [i \in 1..Len(ds) |-> objs[ds[i]].name]]
  /\ UNCHANGED <<manifest, objs, nodes, stack, cmpVars, otherVars, typeCheckStatus,
                 typeCheckProcess, typeCheckLogs, checksumsMem, hashFiles, fs,
                 procs, subs, emitting, schedVars>>

\* one turn of the constructor's loop over the descriptors
CtorDescriptor ==
  /\ ctorStatus = "building" /\ stack # <<>>
  /\ LET top == Len(stack)
         frame == stack[top]
         descriptors == manifest[objs[frame.obj].name]
     IN  /\ frame.i <= Len(descriptors)
         /\ LET name == descriptors[frame.i] IN
            IF alreadyBuilt(name) # 0
            THEN /\ stack' = [stack EXCEPT ![top] =
                       [@ EXCEPT !.i = @ + 1,
                                 !.dependentWorkspaces = Append(@, alreadyBuilt(name))]]
                 /\ UNCHANGED <<objs, ctorStatus>>
            ELSE IF name \notin Nodes
            THEN /\ stack' = [stack EXCEPT ![top].i = @ + 1]
                 /\ UNCHANGED <<objs, ctorStatus>>
            ELSE IF Len(stack) < StackLimit
            THEN /\ enterConstructor(name)
                 /\ UNCHANGED ctorStatus
            ELSE \* RangeError: Maximum call stack size exceeded
                 /\ stack' = <<>>
                 /\ ctorStatus' = "RangeError"
                 /\ UNCHANGED objs
  /\ UNCHANGED <<manifest, nodes, cmpVars, otherVars, nodeVars, schedVars>>

\* the loop is over: this.dependencies is set, the node joins the shared set,
\* and the constructor that called this one pushes the new node
CtorReturn ==
  /\ ctorStatus = "building" /\ stack # <<>>
  /\ LET top == Len(stack)
         frame == stack[top]
     IN  /\ frame.i > Len(manifest[objs[frame.obj].name])
         /\ objs' = [objs EXCEPT ![frame.obj] =
                [@ EXCEPT !.dependencies = frame.dependentWorkspaces, !.built = TRUE]]
         /\ nodes' = Append(nodes, frame.obj)
         /\ stack' = IF top = 1 THEN <<>>
                     ELSE [SubSeq(stack, 1, top - 1) EXCEPT ![top - 1] =
                             [@ EXCEPT !.i = @ + 1,
                                       !.dependentWorkspaces = Append(@, frame.obj)]]
  /\ UNCHANGED <<manifest, ctorStatus, cmpVars, otherVars, nodeVars, schedVars>>

\* a caller asks a node of the built graph for its derived views
GetViews(n) ==
  /\ ctorStatus = "done"
  /\ viewNode' = n
  /\ viewDependencies' = getDependencies(dependencies, n)
  /\ viewDependent' = getDependent(dependencies, n)
  /\ viewParents' = getParents(dependencies, n)
  /\ UNCHANGED <<readRes, transpileVars, workspaceName, unsubscribed, cmpVars, ctorVars, nodeVars, schedVars>>

NextCtor ==
  \/ \E w \in Nodes : GraphNewNode(w)
  \/ GraphBuilt
  \/ CtorDescriptor
  \/ CtorReturn
  \/ \E n \in Nodes : GetViews(n)

SpecCtor == InitCtor /\ [][NextCtor]_vars

(***************************************************************************)
(* Claims about the type-check of one node (SpecNode).                      *)
(***************************************************************************)
\* nothing is running and nothing is awaited: every subprocess is closed and
\* no subscription waits for checksum I/O
Quiescent ==
  /\ emitting.pid = 0
  /\ \A pid \in ProcIds : procs[pid].state = "closed"
  /\ \A s \in SubIds : subs[s].pc \in {"watch", "done"}

\* C1 -- Single-flight: a request made while the node is CHECKING spawns no
\* subprocess of its own, and once the request that started the check has its
\* terminal event, the request that joined it has the same one.
C1_SingleFlight ==
  \A s \in SubIds :
    subs[s].kind = "join" =>
      /\ subs[s].spawned = 0
      /\ (subs[subs[s].joined].term # "none" /\ emitting.pid = 0)
            => subs[s].term = subs[subs[s].joined].term

\* C2 -- Skip correctness: when the unforced request's calculate() returns a
\* map that compare() finds equal to the map read from the cache, no
\* subprocess is spawned, the node is in SUCCESS, the requester has received
\* the node once and then the completion, and the logs say the check was
\* skipped.
C2_SkipCorrectness ==
  [][\A s \in SubIds :
       LET n == subs[s].node IN
       ( /\ subs[s].pc = "calculate"
         /\ subs'[s].pc \notin {"calculate", "recalculate"}
         /\ ~compare(subs[s].old, checksumsMem'[n]) )
       => /\ procs' = procs
          /\ subs'[s].spawned = 0
          /\ typeCheckStatus'[n] = "SUCCESS"
          /\ subs'[s].nexts = 1 /\ subs'[s].term = "complete"
          /\ Len(typeCheckLogs'[n]) > 0 /\ typeCheckLogs'[n][1].kind = "skipped"
    ]_vars

\* a check has been skipped: an unforced request found the stored map equal
C2_Witness ==
  \E s \in SubIds :
    /\ subs[s].skipped /\ ~subs[s].force
    /\ typeCheckStatus[subs[s].node] = "SUCCESS"
    /\ Len(procs) = 0

\* C7 -- force=true bypasses the skip: the forced request's calculate(),
\* whatever it returns, is followed by the spawn of a subprocess for the node;
\* no forced request is ever skipped.
C7_ForceSpawns ==
  [][\A s \in SubIds :
       (subs[s].pc = "forceCalculate" /\ subs'[s].pc # "forceCalculate")
       => /\ Len(procs') = Len(procs) + 1
          /\ procs'[Len(procs')].node = subs[s].node
          /\ procs'[Len(procs')].state = "running"
          /\ subs'[s].spawned = Len(procs')
          /\ ~subs'[s].skipped
    ]_vars

\* a forced request spawned a subprocess although the cache holds the very
\* map it calculated
C7_Witness ==
  \E s \in SubIds :
    /\ subs[s].force /\ subs[s].spawned # 0 /\ subs[s].pc = "watch"
    /\ JsonParses(hashFiles[hashPath(subs[s].node)])
    /\ ~subs[s].cur.null
    /\ ~compare(JsonParse(hashFiles[hashPath(subs[s].node)]), subs[s].cur)

\* C8 -- a cache file is written only by the request that spawned the node's
\* subprocess, after that subprocess closed with code 0; never by a skipped
\* or failed check, nor while the subprocess runs.
C8_WriteAfterOwnSuccess ==
  [][\A p \in HashPaths :
       hashFiles'[p] # hashFiles[p]
       => \E s \in SubIds :
            /\ hashPath(subs[s].node) = p
            /\ subs[s].pc = "write" /\ subs'[s].pc = "done"
            /\ ~subs[s].skipped
            /\ subs[s].spawned # 0
            /\ procs[subs[s].spawned].node = subs[s].node
            /\ procs[subs[s].spawned].state = "closed"
            /\ procs[subs[s].spawned].code = 0
    ]_vars

\* a map has been written after a successful check
C8_Witness ==
  \E s \in SubIds :
    /\ subs[s].wrote
    /\ JsonParses(hashFiles[hashPath(subs[s].node)])

\* C9 -- every subscription gets its terminal notification: once every
\* subprocess has closed and no checksum I/O is awaited, no subscription is
\* left without one.
C9_EveryoneTerminates ==
  Quiescent => \A s \in SubIds : subs[s].term # "none"


(***************************************************************************)
(* Claims about a build (SpecBuild).                                        *)
(***************************************************************************)
Terminal == {"TYPE_CHECK_SUCCESS", "TYPE_CHECK_FAILURE"}

\* C3 -- Dependency ordering: in a run with onlySelf = false, whenever the
\* start event of a node has been emitted, the success or failure event of
\* every node it depends on, directly or transitively, has been emitted.
C3_DependencyOrder ==
  (run.stream # "none" /\ ~run.onlySelf) =>
    \A b \in Nodes :
      events[b] # <<>> =>
        \A a \in Range(getDependencies(dependencies, b)) :
          \E i \in 1..Len(events[a]) : events[a][i] \in Terminal

\* the last node of a chain of three has started
C3_Witness ==
  /\ ~run.onlySelf
  /\ \E b \in Nodes :
       /\ events[b] # <<>>
       /\ Cardinality(Range(getDependencies(dependencies, b))) = 2
       /\ Len(dependencies[b]) = 1

\* a node of the target that no failed node stands before
NotBehindFailure(c) ==
  \A a \in Nodes :
    run.state[a] = "failed" => a \notin Range(getDependencies(dependencies, c)) /\ a # c

\* the run is over: its stream ended, or the program exited
RunOver == run.stream \in {"complete", "error"} \/ cli.exited

\* C4 -- Partial failure containment: the dependents of a failed node are
\* never requested; when the run is over every node of the target that does
\* not depend on a failed node has reached SUCCESS or ERROR; and a node that
\* succeeded is still in SUCCESS.
C4_FailureContained ==
  /\ \A a, b \in Nodes :
       (run.state[a] = "failed" /\ a \in Range(getDependencies(dependencies, b)) /\ ~run.onlySelf)
         => events[b] = <<>> /\ typeCheckStatus[b] = "NOT_CHECKED"
  /\ RunOver =>
       \A c \in run.target :
         NotBehindFailure(c) => typeCheckStatus[c] \in {"SUCCESS", "ERROR"}
  /\ \A n \in Nodes : run.state[n] = "succeeded" => typeCheckStatus[n] = "SUCCESS"

\* C10 -- the events of a node in one build are a start event, then exactly
\* one success or failure event; the consumer never gets a success or
\* failure for a node it has no spinner for.
C10_EventOrder ==
  /\ \A n \in Nodes :
       events[n] \in { <<>>, <<"TYPE_CHECK_IN_PROGRESS">>,
                       <<"TYPE_CHECK_IN_PROGRESS", "TYPE_CHECK_SUCCESS">>,
                       <<"TYPE_CHECK_IN_PROGRESS", "TYPE_CHECK_FAILURE">> }
  /\ ~cli.crashed

\* one node of the build succeeded and another failed
C10_Witness ==
  \E n, m \in Nodes :
    /\ events[n] = <<"TYPE_CHECK_IN_PROGRESS", "TYPE_CHECK_SUCCESS">>
    /\ events[m] = <<"TYPE_CHECK_IN_PROGRESS", "TYPE_CHECK_FAILURE">>

\* C12 -- the aggregate result of a build (the stream's error, the promise's
\* rejection, the exit of the program) is there only when no type-check of
\* the target is still running.
C12_AggregateAfterSiblings ==
  (run.stream = "error" \/ cli.promise = "rejected" \/ cli.exited) =>
    \A n \in run.target :
      /\ run.state[n] # "started"
      /\ typeCheckStatus[n] # "CHECKING"

(***************************************************************************)
(* Claims about watch mode (SpecWatch).                                     *)
(***************************************************************************)
\* the nodes a node reaches through one or more dependency edges
RECURSIVE ReachableFrom(_, _, _)
ReachableFrom(d, frontier, k) ==
  IF k = 0 THEN frontier
  ELSE ReachableFrom(d, frontier \cup UNION {Range(d[m]) : m \in frontier}, k - 1)

Reachable(d, n) == ReachableFrom(d, Range(d[n]), Cardinality(Nodes))

\* C11 -- fileChanged(n) re-queues n and every node that reaches n through
\* dependency edges, nothing less; a re-queued node starts only after its
\* re-queued dependencies ended; and when nothing failed and the run has
\* settled, every re-queued node has been rebuilt.
C11_FileChangedRequeues ==
  (cli.cmd = "watch" /\ run.stream = "open") =>
    /\ \E n \in Nodes :
         /\ run.roots = {n}
         /\ run.target = {n} \cup {m \in Nodes : n \in Reachable(dependencies, m)}
    /\ \A b \in run.target :
         events[b] # <<>> =>
           \A a \in Reachable(dependencies, b) \cap run.target :
             \E i \in 1..Len(events[a]) : events[a][i] \in Terminal
    /\ (runSettled /\ run.failed = {}) =>
         \A m \in run.target :
           events[m] = <<"TYPE_CHECK_IN_PROGRESS", "TYPE_CHECK_SUCCESS">>

\* core changed under core <- lib <- svc and the three were rebuilt, svc last
C11_Witness ==
  /\ cli.cmd = "watch" /\ run.roots = {"core"}
  /\ dependencies = Chain
  /\ fs["core/src/index.ts"] # 1
  /\ \A m \in Nodes : events[m] = <<"TYPE_CHECK_IN_PROGRESS", "TYPE_CHECK_SUCCESS">>
  /\ Len(procs) = 3

(***************************************************************************)
(* Claims about the cache of one node over successive checks (SpecCache).   *)
(***************************************************************************)
\* C13 -- an unforced request whose read() of the cache rejects (unreadable
\* file, corrupt JSON) or whose calculate() rejects goes on to calculate in
\* its catch block without any notification to the requester; from there a
\* subprocess is spawned for the node, the check is not skipped and still
\* nothing is delivered; and a request that spawned ends in completion with
\* the node in SUCCESS only on exit code 0, in error with the node in ERROR
\* otherwise.
C13_CacheErrorsRecovered ==
  [][\A s \in SubIds :
       LET n == subs[s].node IN
       /\ ( /\ subs[s].pc = "read" /\ subs'[s].pc # "read"
            /\ readFileCallback(hashFiles[hashPath(n)]).state = "rejected" )
          => /\ subs'[s].pc = "recalculate"
             /\ subs'[s].nexts = 0 /\ subs'[s].term = "none"
       /\ (subs[s].pc = "calculate" /\ subs'[s].pc = "recalculate")
          => subs'[s].nexts = 0 /\ subs'[s].term = "none"
       /\ (subs[s].pc = "recalculate" /\ subs'[s].pc # "recalculate")
          => /\ Len(procs') = Len(procs) + 1
             /\ procs'[Len(procs')].node = n
             /\ subs'[s].spawned = Len(procs') /\ subs'[s].pc = "watch"
             /\ ~subs'[s].skipped
             /\ subs'[s].nexts = 0 /\ subs'[s].term = "none"
             /\ typeCheckStatus'[n] = "CHECKING"
       /\ (subs[s].spawned # 0 /\ subs[s].nexts = 0 /\ subs'[s].nexts = 1)
          => /\ procs[subs[s].spawned].state = "closed"
             /\ procs[subs[s].spawned].code = 0
             /\ typeCheckStatus'[n] = "SUCCESS"
       /\ (subs[s].spawned # 0 /\ subs[s].term = "none" /\ subs'[s].term = "error")
          => /\ ~(procs[subs[s].spawned].state = "closed" /\ procs[subs[s].spawned].code = 0)
             /\ subs'[s].nexts = 0
             /\ typeCheckStatus'[n] = "ERROR"
       /\ (subs[s].spawned # 0 /\ subs[s].term = "none" /\ subs'[s].term = "complete")
          => /\ procs[subs[s].spawned].code = 0
             /\ subs'[s].nexts = 1
    ]_vars

\* an unforced request found a cache file that is unreadable or corrupt, and
\* its check ran and ended in success
C13_Witness ==
  \E s \in SubIds :
    /\ ~subs[s].force /\ subs[s].kind = "start"
    /\ subs[s].spawned = 1 /\ s = 1
    /\ subs[s].term = "complete" /\ subs[s].nexts = 1 /\ ~subs[s].wrote
    /\ hashFiles[hashPath(subs[s].node)] \in {Unreadable, Garbage}
    /\ typeCheckStatus[subs[s].node] = "SUCCESS"

\* an unforced request that finds this cache file and calculates a map equal
\* to current re-runs the subprocess
NeedsRebuild(file, current) ==
  \/ read(file).state = "rejected"
  \/ compare(read(file).value, current)

\* the write of subscription s ends in this step, and it failed
WriteFails(s) ==
  /\ s \in SubIds /\ s \in 1..Len(subs')
  /\ subs[s].pc = "write" /\ subs'[s].pc = "done" /\ ~subs'[s].wrote

C16_LogsOfLatestInvocation ==
  \A n \in Nodes :
    \A i \in 1..Len(typeCheckLogs[n]) :
      LET line == typeCheckLogs[n][i]
          s == LatestStart(n)
      IN  /\ s # 0
          /\ line.kind = "tsc" => line.pid = subs[s].spawned
          /\ line.kind # "tsc" => subs[s].skipped

\* C17 -- a node whose invocations so far all ended in ERROR, none in
\* SUCCESS, still has the in-memory map it was constructed with.
C17_LastChecksumsOnlyOnSuccess ==
  \A n \in Nodes :
    ( /\ typeCheckStatus[n] = "ERROR"
      /\ \A s \in SubIds : subs[s].node = n => subs[s].nexts = 0 )
    => checksumsMem[n] = Null

(***************************************************************************)
(* Claims about checksums.read (SpecRead).                                  *)
(***************************************************************************)
\* C14 -- read() of a cache file that was never written, that cannot be
\* read, or that does not hold JSON, resolves with null: no stored map, and
\* no failure.
C14_ReadYieldsAbsent ==
  (readRes.state # "none"
     /\ hashFiles[hashPath(readRes.node)] \in {Missing, Unreadable, Garbage})
  => (readRes.state = "resolved" /\ readRes.value = Null)

(***************************************************************************)
(* Claims about graph construction (SpecCtor) and compare (SpecCompare).    *)
(***************************************************************************)
\* C5 -- Cycle rejection: construction never has two constructors of the same
\* workspace on the call stack, and never ends by exhausting the call stack.
C5_CycleRejected ==
  /\ \A i, j \in 1..Len(stack) :
       i # j => objs[stack[i].obj].name # objs[stack[j].obj].name
  /\ ctorStatus # "RangeError"

\* C6 -- compare answers true exactly when old is absent or the two objects
\* differ as mappings, whatever the order of their keys, and for two objects
\* compare(a, b) = compare(b, a).
C6_CompareIsMappingInequality ==
  /\ cmpRes # "none" =>
       cmpRes = BoolText(cmpOld.null \/ AsMapping(cmpOld) # AsMapping(cmpCur))
  /\ (cmpRes # "none" /\ cmpRev # "none") => cmpRes = cmpRev

\* two objects with the same entries in different orders compared unchanged,
\* both ways round
C6_Witness ==
  /\ cmpRes = "false" /\ cmpRev = "false"
  /\ Len(cmpCur.entries) = 3
  /\ cmpOld.entries # cmpCur.entries

(***************************************************************************)
(* Claims about the IPC hook (SpecTranspile).                               *)
(***************************************************************************)
\* C18: when an IPC manager is registered, every step that changes the
\* transpiling status or the type-check status of a node calls its
\* graphUpdated() hook.
C18_HookOnEveryChange ==
  [][(ipc # "none"
      /\ \E n \in Nodes : \/ transpilingStatus'[n] # transpilingStatus[n]
                          \/ typeCheckStatus'[n] # typeCheckStatus[n])
     => ipcCalls' > ipcCalls]_vars

\* C19: whatever manager is registered, a transpile() subscription behaves
\* as it does with a hook that returns: the promise it waits for is rejected
\* only when compileFiles failed; once its callbacks have run it has received
\* the node and a completion when the promise resolved, and an error and
\* nothing else when it was rejected; and the node is TRANSPILED or
\* ERROR_TRANSPILING after the callbacks of its latest promise, according to
\* the outcome of that promise.
C19_HookCannotChangeBehaviour ==
  \A ts \in TSubIds :
    LET sub == tsubs[ts]
        p == promises[sub.promise]
    IN  /\ p.state = "rejected" => p.compile = "failed"
        /\ sub.pc # "catch"
        /\ sub.pc = "done" =>
             /\ IF p.state = "resolved"
                THEN sub.nexts = 1 /\ sub.term = "complete"
                ELSE sub.nexts = 0 /\ sub.term = "error"
             /\ transpilingPromise[sub.node] = sub.promise =>
                  transpilingStatus[sub.node] =
                    IF p.state = "resolved" THEN "TRANSPILED" ELSE "ERROR_TRANSPILING"

\* the same statement for the runs in which no hook throws
C19_HoldsWithoutThrowingHook == ipc # "throws" => C19_HookCannotChangeBehaviour

(***************************************************************************)
(* Claims about the derived views of a built graph (SpecCtor).              *)
(***************************************************************************)
\* C20: for a node n of a built (acyclic) graph, as sets: getDependencies(n)
\* is the set of nodes reachable from n through one or more dependency
\* edges, and n is not among them; getDependent(n) is the set of nodes that
\* reach n; getParents(n) is the set of nodes with n among their direct
\* dependencies, a subset of getDependent(n).
C20_DerivedViews ==
  viewNode # "none" =>
    /\ Range(viewDependencies) = Reachable(dependencies, viewNode)
    /\ viewNode \notin Range(viewDependencies)
    /\ Range(viewDependent) = {m \in Nodes : viewNode \in Reachable(dependencies, m)}
    /\ Range(viewParents) = {m \in Nodes : viewNode \in Range(dependencies[m])}
    /\ Range(viewParents) \subseteq Range(viewDependent)

\* the views of a node that has a dependent which is not a parent, and whose
\* dependent has a dependency it does not name itself
C20_Witness ==
  /\ viewNode # "none"
  /\ Range(viewParents) # {}
  /\ Range(viewDependent) # Range(viewParents)
  /\ \E m \in Range(viewDependent) :
       Range(getDependencies(dependencies, m)) # Range(dependencies[m])

(***************************************************************************)
(* Claims about the construction of the nodes (SpecCtor).                   *)
(***************************************************************************)
\* the dependency edges the manifests name between workspaces
ManifestEdges == [n \in Nodes |-> SelectSeq(manifest[n], LAMBDA x : x \in Nodes)]

AcyclicManifest == \A n \in Nodes : n \notin Reachable(ManifestEdges, n)

\* C21: over acyclic workspaces no workspace name is ever constructed twice
\* and the construction never overflows; the dependency list of a built node
\* holds nodes of the shared set only; and once the graph is built the shared
\* set holds one node per workspace name and each dependency list holds, in
\* the order of the manifest, the shared node of each workspace it names.
C21_OneSharedNodePerWorkspace ==
  AcyclicManifest =>
    /\ \A i, j \in 1..Len(objs) : i # j => objs[i].name # objs[j].name
    /\ \A i, j \in 1..Len(nodes) : i # j => nodes[i] # nodes[j]
    /\ \A o \in 1..Len(objs) :
         objs[o].built => Range(objs[o].dependencies) \subseteq Range(nodes)
    /\ ctorStatus # "RangeError"
    /\ ctorStatus = "done" =>
         /\ {objs[nodes[i]].name : i \in 1..Len(nodes)} = Nodes
         /\ Len(nodes) = Cardinality(Nodes)
         /\ \A o \in 1..Len(objs) :
              [k \in 1..Len(objs[o].dependencies) |-> objs[objs[o].dependencies[k]].name]
                = ManifestEdges[objs[o].name]

\* a built graph in which one node object is in the dependency lists of two
\* other nodes, one of which depends on the other
C21_Witness ==
  /\ ctorStatus = "done"
  /\ \E a, b, c \in 1..Len(objs) :
       /\ a # b
       /\ c \in Range(objs[a].dependencies) /\ c \in Range(objs[b].dependencies)
       /\ b \in Range(objs[a].dependencies)

C23_CachePartitionedPerNode ==
  (readRes.state = "resolved" /\ readRes.value # Null) =>
    {readRes.value.entries[i][1] : i \in 1..Len(readRes.value.entries)}
      = calculateSources(readRes.node)

(***************************************************************************)
(* Claims about the sources a fingerprint map covers (SpecDeps).            *)
(***************************************************************************)
\* the stored map of node n says that source f has the content it has now
StoredAsNow(n, f) ==
  /\ JsonParses(hashFiles[hashPath(n)])
  /\ Includes(JsonParse(hashFiles[hashPath(n)]).entries, <<f, Sha256(fs[f])>>)

C25_UnsubscribeEndsSubprocess ==
  \A s \in unsubscribed :
    subs[s].spawned # 0 => procs[subs[s].spawned].state # "running"

(***************************************************************************)
(* Claims about the type-check status under interleavings (SpecNode).       *)
(***************************************************************************)
\* the subprocess event being delivered belongs to the invocation of node n
\* that is in flight: the latest one that was started
EventOfCurrentInvocation(n) ==
  /\ emitting.pid # 0
  /\ LatestStart(n) # 0
  /\ emitting.pid = subs[LatestStart(n)].spawned

\* C26: the type-check status of a node changes only from NOT_CHECKED,
\* SUCCESS or ERROR to CHECKING in a step that adds a subscription, from
\* CHECKING to SUCCESS when the invocation in flight is skipped or its
\* subprocess closes with code 0, and from CHECKING to ERROR when the
\* subprocess of the invocation in flight fails.
C26_StatusTransitions ==
  [][\A n \in Nodes :
       typeCheckStatus'[n] # typeCheckStatus[n] =>
         \/ /\ typeCheckStatus[n] # "CHECKING" /\ typeCheckStatus'[n] = "CHECKING"
            /\ Len(subs') = Len(subs) + 1
         \/ /\ typeCheckStatus[n] = "CHECKING" /\ typeCheckStatus'[n] = "SUCCESS"
            /\ \/ /\ emitting.pid = 0
                  /\ ~subs[LatestStart(n)].skipped /\ subs'[LatestStart(n)].skipped
               \/ /\ EventOfCurrentInvocation(n)
                  /\ emitting.ev = "close" /\ emitting.code = 0
         \/ /\ typeCheckStatus[n] = "CHECKING" /\ typeCheckStatus'[n] = "ERROR"
            /\ EventOfCurrentInvocation(n)
            /\ emitting.ev = "error" \/ emitting.code # 0
    ]_vars

\* the subprocesses of node n that are running
LiveProcesses(n) == {pid \in ProcIds : procs[pid].node = n /\ procs[pid].state = "running"}

\* C27: a node has at most one running type-check subprocess, and it has
\* one only while its status is CHECKING.
C27_OneLiveSubprocess ==
  \A n \in Nodes :
    /\ Cardinality(LiveProcesses(n)) <= 1
    /\ LiveProcesses(n) # {} => typeCheckStatus[n] = "CHECKING"

(***************************************************************************)
(* Claims about skipped checks when sources change during a check           *)
(* (SpecRace).                                                              *)
(***************************************************************************)
\* C28: when an unforced request is skipped, a subprocess of the node has
\* exited with code 0 after reading, for the node and for each of its
\* dependencies, the sources as they are at the moment of the skip.
C28_NoIncorrectSkip ==
  [][\A s \in SubIds :
       LET n == subs[s].node IN
       (~subs[s].skipped /\ subs'[s].skipped) =>
         \E pid \in ProcIds :
           /\ procs[pid].node = n
           /\ procs[pid].state = "closed" /\ procs[pid].code = 0
           /\ \A f \in calculateSources(n) : procs[pid].sources[f] = fs[f]
    ]_vars

(***************************************************************************)
(* Claims about concurrent transpiles (SpecTranspile).                      *)
(***************************************************************************)
\* the compiles of node n that compileFiles has not settled yet
CompilesInFlight(n) ==
  {pid \in PromiseIds : promises[pid].node = n /\ promises[pid].compile = "running"}

\* C29: a node has at most one compile in flight, and while it has one its
\* transpiling status is TRANSPILING: the callbacks of an earlier compile do
\* not set it to TRANSPILED or ERROR_TRANSPILING.
C29_OneCompileInFlight ==
  \A n \in Nodes :
    /\ Cardinality(CompilesInFlight(n)) <= 1
    /\ CompilesInFlight(n) # {} => transpilingStatus[n] = "TRANSPILING"

\* C30: a subscriber that has received the node from transpile() saw it with
\* the status TRANSPILED.
C30_TranspiledBeforeNotified ==
  \A ts \in TSubIds : tsubs[ts].nexts > 0 => tsubs[ts].seen = "TRANSPILED"

====
